---- MODULE Spec2Model ----
(***************************************************************************)
(* PubChemResolveTool (First_Cheminformatics_agent/tools/pubchem_search.py) *)
(* as a state machine: the in-memory cache (an insertion-ordered dict), the *)
(* two alias dicts, the cache file, and the operations __init__ and forward.*)
(*                                                                         *)
(* Python strings are sequences of one-character strings, so that strip()  *)
(* and lower() are computed and not assumed.  Python values None / str /   *)
(* int are tagged records.  The JSON file is the sequence of its entries,  *)
(* each value as the JSON token json.dump writes for it.                   *)
(***************************************************************************)
EXTENDS Integers, Sequences, FiniteSets, TLC

\* ------------------------------------------------------------------ bounds
\* most entries the cache may hold before the model stops resolving misses
MaxEntries == 2
\* most adapter invocations counted per token
MaxCalls == 2

\* ----------------------------------------------------------------- strings
LowerChar(c) ==
  CASE c = "A" -> "a"
    [] c = "K" -> "k"
    [] c = "F" -> "f"
    [] OTHER -> c

\* str.lower()
RECURSIVE StrLower(_)
StrLower(s) ==
  IF s = <<>> THEN <<>> ELSE <<LowerChar(Head(s))>> \o StrLower(Tail(s))

RECURSIVE LStrip(_)
LStrip(s) ==
  IF s # <<>> /\ Head(s) = " " THEN LStrip(Tail(s)) ELSE s

RECURSIVE RStrip(_)
RStrip(s) ==
  IF s # <<>> /\ s[Len(s)] = " " THEN RStrip(SubSeq(s, 1, Len(s) - 1)) ELSE s

\* str.strip()
Strip(s) == RStrip(LStrip(s))

\* ------------------------------------------------------------ Python values
PyNone == [t |-> "none", s |-> <<>>, n |-> 0]
PyStr(s) == [t |-> "str", s |-> s, n |-> 0]
PyInt(n) == [t |-> "int", s |-> <<>>, n |-> n]

\* truth value of a Python value: None, "" and 0 are falsy
Truthy(v) == (v.t = "str" /\ v.s # <<>>) \/ (v.t = "int" /\ v.n # 0)

\* Python's  a or b
PyOr(a, b) == IF Truthy(a) THEN a ELSE b

Digits == <<"0", "1", "2", "3", "4", "5", "6", "7", "8", "9">>

\* decimal text of a non-negative int
RECURSIVE IntText(_)
IntText(n) ==
  IF n < 10 THEN <<Digits[n + 1]>>
  ELSE Append(IntText(n \div 10), Digits[(n % 10) + 1])

DigitValue(c) == CHOOSE d \in 0..9 : Digits[d + 1] = c

\* int(text) for a decimal text
RECURSIVE TextInt(_)
TextInt(s) ==
  IF s = <<>> THEN 0
  ELSE 10 * TextInt(SubSeq(s, 1, Len(s) - 1)) + DigitValue(s[Len(s)])

\* str(v)
ToStr(v) ==
  CASE v.t = "str" -> v.s
    [] v.t = "int" -> IntText(v.n)
    [] OTHER -> <<"N", "o", "n", "e">>

\* _norm_name without the lower(): names compared as spelled
NormName_StripOnly(s) == Strip(s)

\* _norm_name: s.strip().lower()
NormName(s) == StrLower(Strip(s))

\* --------------------------------------------------------------- records
FieldNames == <<"iupac_name", "inchikey", "smiles", "common_name", "cid", "formula">>
FieldSet == {FieldNames[i] : i \in 1..Len(FieldNames)}

\* the negative record forward caches when the fetch found nothing
NegativeRecord == [f \in FieldSet |-> PyNone]

\* the None a dict.get or _lookup_cache returns
NoRecord == [none |-> TRUE]

\* ------------------------------------------------------------------ JSON
JsonNull == <<"n", "u", "l", "l">>
Quote == "\""

\* json.dump of one value: null, a quoted string, or a number
JsonDumpValue(v) ==
  CASE v.t = "none" -> JsonNull
    [] v.t = "str" -> <<Quote>> \o v.s \o <<Quote>>
    [] OTHER -> IntText(v.n)

\* json.load reading a number back as a string
JsonLoadValue_NumberAsText(tx) ==
  IF tx = JsonNull THEN PyNone
  ELSE IF Head(tx) = Quote THEN PyStr(SubSeq(tx, 2, Len(tx) - 1))
  ELSE PyStr(tx)

\* json.load of one value
JsonLoadValue(tx) ==
  IF tx = JsonNull THEN PyNone
  ELSE IF Head(tx) = Quote THEN PyStr(SubSeq(tx, 2, Len(tx) - 1))
  ELSE PyInt(TextInt(tx))

JsonDumpRecord(rec) == [i \in 1..Len(FieldNames) |-> JsonDumpValue(rec[FieldNames[i]])]

JsonLoadRecord(txs) ==
  [f \in FieldSet |-> JsonLoadValue(txs[CHOOSE i \in 1..Len(FieldNames) : FieldNames[i] = f])]

\* json.dump(self._cache, f): one entry per key, in the dict's order
JsonDump(c) ==
  [i \in 1..Len(c) |-> [k |-> <<Quote>> \o c[i].key \o <<Quote>>, v |-> JsonDumpRecord(c[i].rec)]]

\* json.load(f) of a file this program wrote
JsonLoad(body) ==
  [i \in 1..Len(body) |->
     [key |-> SubSeq(body[i].k, 2, Len(body[i].k) - 1), rec |-> JsonLoadRecord(body[i].v)]]

\* the cache file: absent, not parseable as JSON, JSON text of a dict of records,
\* or JSON text of something else (an array with an element)
FileAbsent == [kind |-> "absent", body |-> <<>>]
FileMalformed == [kind |-> "malformed", body |-> <<>>]
FileNotMapping == [kind |-> "notmapping", body |-> <<>>]
FileJson(body) == [kind |-> "json", body |-> body]

\* ---------------------------------------------- the cache: an ordered dict
\* the cache is the sequence of its items [key, rec] in insertion order
HasKey(c, k) == \E i \in 1..Len(c) : c[i].key = k

\* c.get(k)
DictGet(c, k) ==
  IF HasKey(c, k) THEN c[CHOOSE i \in 1..Len(c) : c[i].key = k].rec ELSE NoRecord

\* c[k] = rec: an existing key keeps its place, a new key goes last
DictSet(c, k, rec) ==
  IF HasKey(c, k)
  THEN [i \in 1..Len(c) |-> IF c[i].key = k THEN [key |-> k, rec |-> rec] ELSE c[i]]
  ELSE Append(c, [key |-> k, rec |-> rec])

Keys(c) == {c[i].key : i \in 1..Len(c)}

\* ---------------------------------------------------------- alias indexes
EmptyDict == [a \in {} |-> <<>>]

\* (v.get(field) or "").strip()
FieldText(rec, f) == Strip(PyOr(rec[f], PyStr(<<>>)).s)

\* cid_str = str(cid).strip() if cid not in (None, "") else ""
CidStr(rec) ==
  IF rec["cid"] \notin {PyNone, PyStr(<<>>)} THEN Strip(ToStr(rec["cid"])) ELSE <<>>

\* _alias_ci built without the written key
CiAliases_NoWritten(e) ==
  {NormName(a) :
     a \in {FieldText(e.rec, "iupac_name"), FieldText(e.rec, "common_name")} \ {<<>>}}

\* the keys one item writes into _alias_ci: filter(None, {written, name, common_name}),
\* each through _norm_name
CiAliases(e) ==
  {NormName(a) :
     a \in {e.key, FieldText(e.rec, "iupac_name"), FieldText(e.rec, "common_name")} \ {<<>>}}

\* _alias_cs built without the inchikey
CsAliases_NoInchikey(e) ==
  {FieldText(e.rec, "smiles"), FieldText(e.rec, "formula"), CidStr(e.rec)} \ {<<>>}

\* the keys one item writes into _alias_cs: filter(None, {inchikey, smiles, formula, cid_str})
CsAliases(e) ==
  {FieldText(e.rec, "inchikey"), FieldText(e.rec, "smiles"),
   FieldText(e.rec, "formula"), CidStr(e.rec)} \ {<<>>}

\* d.setdefault(alias, written) for every alias of the set: the first item to
\* generate an alias keeps it
DictSetAll_KeepFirst(d, aliases, written) ==
  [a \in (DOMAIN d) \cup aliases |-> IF a \in DOMAIN d THEN d[a] ELSE written]

\* d[alias] = written for every alias of the set
DictSetAll(d, aliases, written) ==
  [a \in (DOMAIN d) \cup aliases |-> IF a \in aliases THEN written ELSE d[a]]

\* the loop of _rebuild_alias_indexes from item i on
RECURSIVE RebuildFrom(_, _, _, _)
RebuildFrom(c, i, cs, ci) ==
  IF i > Len(c) THEN [cs |-> cs, ci |-> ci]
  ELSE RebuildFrom(c, i + 1,
                   DictSetAll(cs, CsAliases(c[i]), c[i].key),
                   DictSetAll(ci, CiAliases(c[i]), c[i].key))

\* _rebuild_alias_indexes: clear both dicts, then every item in the dict's order
RebuildAliasIndexes(c) == RebuildFrom(c, 1, EmptyDict, EmptyDict)

\* --------------------------------------------------- resolver state, file
\* the state one resolver works on
MkState(c, cs, ci, fl) == [cache |-> c, alias_cs |-> cs, alias_ci |-> ci, file |-> fl]

\* _persist_cache: the whole cache overwrites the file
PersistCache(c) == FileJson(JsonDump(c))

\* _load_cache: an absent file is created holding {}; a file that does not parse
\* leaves the cache empty and the file as it is; then the indexes are rebuilt
\* (the result for the files on which LoadRaises is false)
LoadCache(fl) ==
  LET c == IF fl.kind = "json" THEN JsonLoad(fl.body) ELSE <<>>
      idx == RebuildAliasIndexes(c)
  IN MkState(c, idx.cs, idx.ci, IF fl.kind = "absent" THEN FileJson(JsonDump(<<>>)) ELSE fl)

\* __init__ raises: json.load returns a list, only json.JSONDecodeError is caught,
\* and _rebuild_alias_indexes calls .items() on the list
LoadRaises(fl) == fl.kind = "notmapping"

\* _add_to_cache without the _persist_cache call
AddToCache_NoPersist(st, written, rec) ==
  LET c == DictSet(st.cache, written, rec)
      idx == RebuildAliasIndexes(c)
  IN MkState(c, idx.cs, idx.ci, st.file)

\* _add_to_cache storing under the trimmed key
AddToCache_TrimmedKey(st, written, rec) ==
  LET c == DictSet(st.cache, Strip(written), rec)
      idx == RebuildAliasIndexes(c)
  IN MkState(c, idx.cs, idx.ci, PersistCache(c))

\* _add_to_cache without the _rebuild_alias_indexes call
AddToCache_NoRebuild(st, written, rec) ==
  LET c == DictSet(st.cache, written, rec)
  IN MkState(c, st.alias_cs, st.alias_ci, PersistCache(c))

\* _add_to_cache: store, rebuild, persist
AddToCache(st, written, rec) ==
  LET c == DictSet(st.cache, written, rec)
      idx == RebuildAliasIndexes(c)
  IN MkState(c, idx.cs, idx.ci, PersistCache(c))

\* _lookup_cache taking a cached negative record for a miss
LookupCache_SkipNegative(st, query) ==
  IF Strip(query) = <<>> THEN NoRecord
  ELSE LET q == Strip(query)
           n == NormName(q)
           found == IF q \in DOMAIN st.alias_cs /\ st.alias_cs[q] # <<>>
                    THEN DictGet(st.cache, st.alias_cs[q])
                    ELSE IF n \in DOMAIN st.alias_ci /\ st.alias_ci[n] # <<>>
                    THEN DictGet(st.cache, st.alias_ci[n])
                    ELSE DictGet(st.cache, q)
       IN IF found = NegativeRecord THEN NoRecord ELSE found

\* _lookup_cache matching _alias_cs without regard to case
LookupCache_FoldCase(st, query) ==
  IF Strip(query) = <<>> THEN NoRecord
  ELSE LET q == Strip(query)
           n == NormName(q)
           same == {a \in DOMAIN st.alias_cs : StrLower(a) = StrLower(q)}
       IN IF same # {}
          THEN DictGet(st.cache, st.alias_cs[CHOOSE a \in same : TRUE])
          ELSE IF n \in DOMAIN st.alias_ci /\ st.alias_ci[n] # <<>>
          THEN DictGet(st.cache, st.alias_ci[n])
          ELSE DictGet(st.cache, q)

\* _lookup_cache asking _alias_ci before _alias_cs
LookupCache_NamesFirst(st, query) ==
  IF Strip(query) = <<>> THEN NoRecord
  ELSE LET q == Strip(query)
           n == NormName(q)
       IN IF n \in DOMAIN st.alias_ci /\ st.alias_ci[n] # <<>>
          THEN DictGet(st.cache, st.alias_ci[n])
          ELSE IF q \in DOMAIN st.alias_cs /\ st.alias_cs[q] # <<>>
          THEN DictGet(st.cache, st.alias_cs[q])
          ELSE DictGet(st.cache, q)

\* _lookup_cache
LookupCache(st, query) ==
  IF Strip(query) = <<>> THEN NoRecord
  ELSE LET q == Strip(query)
           n == NormName(q)
       IN IF q \in DOMAIN st.alias_cs /\ st.alias_cs[q] # <<>>
          THEN DictGet(st.cache, st.alias_cs[q])
          ELSE IF n \in DOMAIN st.alias_ci /\ st.alias_ci[n] # <<>>
          THEN DictGet(st.cache, st.alias_ci[n])
          ELSE DictGet(st.cache, q)

\* ------------------------------------------------------- PubChem fetch
Namespaces == <<"inchikey", "smiles", "formula", "name", "cid">>

\* what pcp.get_compounds(token, ns) does: raises, or returns a list of compounds
Raises == [kind |-> "raise", comps |-> <<>>]
Returns(comps) == [kind |-> "list", comps |-> comps]

\* the record built without the  or ""  fallbacks: a missing attribute stays None
RecordOf_KeepNone(c) ==
  [f \in FieldSet |->
     CASE f = "iupac_name" -> c.iupac_name
       [] f = "inchikey" -> c.inchikey
       [] f = "smiles" -> PyOr(c.isomeric_smiles, c.smiles)
       [] f = "common_name" -> IF c.synonyms = <<>> THEN PyNone ELSE c.synonyms[1]
       [] f = "cid" -> c.cid
       [] OTHER -> c.molecular_formula]

\* the record _fetch_from_pubchem builds from a compound: every  x or ""
RecordOf(c) ==
  [f \in FieldSet |->
     CASE f = "iupac_name" -> PyOr(c.iupac_name, PyStr(<<>>))
       [] f = "inchikey" -> PyOr(c.inchikey, PyStr(<<>>))
       [] f = "smiles" -> PyOr(c.isomeric_smiles, PyOr(c.smiles, PyStr(<<>>)))
       [] f = "common_name" ->
            PyOr(IF c.synonyms = <<>> THEN PyNone ELSE c.synonyms[1], PyStr(<<>>))
       [] f = "cid" -> PyOr(c.cid, PyStr(<<>>))
       [] OTHER -> PyOr(c.molecular_formula, PyStr(<<>>))]

\* the loop of _fetch_from_pubchem from namespace i on: an exception or an empty
\* list goes on to the next namespace, the first compound found is returned
RECURSIVE FetchFrom(_, _)
FetchFrom(resp, i) ==
  IF i > Len(Namespaces) THEN NoRecord
  ELSE LET o == resp[i]
       IN IF o.kind = "raise" \/ o.comps = <<>> THEN FetchFrom(resp, i + 1)
          ELSE RecordOf(o.comps[1])

\* _fetch_from_pubchem, given PubChem's answers resp[i] for Namespaces[i]
FetchFromPubchem(resp) == FetchFrom(resp, 1)

\* ------------------------------------------------------------- forward
\* the value of output_format when the caller gives none (the signature's default)
DefaultFormat == "json"
\* stands for the Python value None passed as output_format
FormatNone == "<None>"

\* what forward returns or raises
RaisedValueError == [kind |-> "ValueError", q |-> <<>>, f |-> "", body |-> <<>>]
NoResultFound(q) == [kind |-> "no_result", q |-> q, f |-> "", body |-> <<>>]
NoValueFound(f, q) == [kind |-> "no_value", q |-> q, f |-> f, body |-> <<>>]
JsonText(rec) == [kind |-> "json", q |-> <<>>, f |-> "", body |-> JsonDumpRecord(rec)]
ValueText(v) == [kind |-> "value", q |-> <<>>, f |-> "", body |-> <<ToStr(v)>>]

\* step 3 of forward: render rec as output_format
Render(rec, output_format, query) ==
  IF output_format = "json" THEN JsonText(rec)
  ELSE IF output_format \notin FieldSet THEN RaisedValueError
  ELSE IF rec[output_format] \in {PyNone, PyStr(<<>>)} THEN NoValueFound(output_format, query)
  ELSE ValueText(rec[output_format])

\* the outcome of a call: the resolver state after it, what it returned or raised,
\* whether _fetch_from_pubchem was called, and the record it rendered
Outcome(st, out, called, rec) == [st |-> st, out |-> out, called |-> called, rec |-> rec]

\* an exception of the adapter leaving forward
RaisedAdapterError == [kind |-> "Exception", q |-> <<>>, f |-> "", body |-> <<>>]

\* forward over a fetch without its try/except: an exception of the first
\* get_compounds call leaves forward
Forward_AdapterErrorEscapes(st, query, output_format, resp) ==
  IF Strip(query) = <<>> THEN Outcome(st, RaisedValueError, FALSE, NoRecord)
  ELSE LET fmt == IF output_format \in {FormatNone, ""} THEN "json" ELSE output_format
           rec == LookupCache(st, query)
           fetched == FetchFromPubchem(resp)
       IN IF rec # NoRecord THEN Outcome(st, Render(rec, fmt, query), FALSE, rec)
          ELSE IF resp[1].kind = "raise" THEN Outcome(st, RaisedAdapterError, TRUE, NoRecord)
          ELSE IF fetched = NoRecord
          THEN Outcome(AddToCache(st, query, NegativeRecord), NoResultFound(query), TRUE,
                       NegativeRecord)
          ELSE Outcome(AddToCache(st, query, fetched), Render(fetched, fmt, query), TRUE,
                       fetched)

\* forward(query, output_format), PubChem answering resp if it is asked
Forward(st, query, output_format, resp) ==
  IF Strip(query) = <<>> THEN Outcome(st, RaisedValueError, FALSE, NoRecord)
  ELSE LET fmt == IF output_format \in {FormatNone, ""} THEN "json" ELSE output_format
           rec == LookupCache(st, query)
           fetched == FetchFromPubchem(resp)
       IN IF rec # NoRecord THEN Outcome(st, Render(rec, fmt, query), FALSE, rec)
          ELSE IF fetched = NoRecord
          THEN Outcome(AddToCache(st, query, NegativeRecord), NoResultFound(query), TRUE,
                       NegativeRecord)
          ELSE Outcome(AddToCache(st, query, fetched), Render(fetched, fmt, query), TRUE,
                       fetched)

\* ------------------------------------------------------ inputs of the model
\* query strings: empty, blank, a name in three spellings, a structural
\* identifier in two cases, a formula and a cid
Queries ==
  {<<>>, <<" ">>, <<"a">>, <<"A">>, <<" ", "a">>, <<"K">>, <<"k">>, <<"F">>, <<"1">>}

Formats == FieldSet \cup {"json", "bogus", "", FormatNone}

\* a compound with every identifier; only c.smiles, no isomeric_smiles
CompoundOne ==
  [iupac_name |-> PyNone, inchikey |-> PyStr(<<"K">>), isomeric_smiles |-> PyNone,
   smiles |-> PyStr(<<"1">>), synonyms |-> <<PyStr(<<"A">>), PyStr(<<"k">>)>>,
   cid |-> PyInt(1), molecular_formula |-> PyStr(<<"F">>)]

\* an isomer of it: same formula, a name, nothing else
CompoundTwo ==
  [iupac_name |-> PyStr(<<"k">>), inchikey |-> PyNone, isomeric_smiles |-> PyNone,
   smiles |-> PyNone, synonyms |-> <<>>,
   cid |-> PyNone, molecular_formula |-> PyStr(<<"F">>)]

Nothing == Returns(<<>>)
One == Returns(<<CompoundOne>>)
TwoOne == Returns(<<CompoundTwo, CompoundOne>>)

\* PubChem's answers to one token, by namespace
Responses ==
  { <<Nothing, Nothing, Nothing, Nothing, Nothing>>,
    <<Raises, Raises, Raises, Raises, Raises>>,
    <<One, TwoOne, Raises, Nothing, Nothing>>,
    <<Raises, Nothing, Nothing, One, TwoOne>>,
    <<Nothing, Raises, TwoOne, One, Raises>>,
    <<Raises, Raises, Nothing, Nothing, TwoOne>> }

\* ---------------------------------------------------------------- state
VARIABLES
  ready,      \* a PubChemResolveTool has been constructed
  cache,      \* _cache
  alias_cs,   \* _alias_cs
  alias_ci,   \* _alias_ci
  file,       \* the content of cache_filename
  calls,      \* per token, how often _fetch_from_pubchem was called (history)
  ready2,     \* a second PubChemResolveTool has been constructed
  cache2,     \* its _cache (an instance attribute since _load_cache assigned it)
  file2,      \* the content of its cache_filename
  attempts,   \* one _fetch_from_pubchem call: PubChem's answer by namespace
  tried,      \* the namespaces it has asked so far
  fetched     \* what it returned, Pending while it runs

vars == <<ready, cache, alias_cs, alias_ci, file, calls, ready2, cache2, file2,
          attempts, tried, fetched>>

\* the second resolver's own variables; _alias_cs and _alias_ci are dicts of the
\* class, cleared and refilled in place, and so the same objects for both
second == <<ready2, cache2, file2>>

\* the variables of the fetch taken alone
fetch == <<attempts, tried, fetched>>

\* the first resolver's variables and the class-level indexes
first == <<ready, cache, alias_cs, alias_ci, file, calls>>

NamespaceSet == {Namespaces[i] : i \in 1..Len(Namespaces)}
Pending == [pending |-> TRUE]

\* the resolver's current state
Cur == MkState(cache, alias_cs, alias_ci, file)

\* no resolver constructed, no fetch running
NothingYet ==
  /\ ready = FALSE
  /\ cache = <<>>
  /\ alias_cs = EmptyDict
  /\ alias_ci = EmptyDict
  /\ calls = [q \in Queries |-> 0]
  /\ ready2 = FALSE
  /\ cache2 = <<>>
  /\ file2 = FileAbsent
  /\ tried = <<>>
  /\ fetched = Pending

\* before construction: the class attributes are empty dicts; the cache file is
\* absent, holds something that is not JSON, or holds JSON that is not a dict
Init ==
  /\ NothingYet
  /\ file \in {FileAbsent, FileMalformed, FileNotMapping}
  /\ attempts = [ns \in NamespaceSet |-> Nothing]

\* __init__: a resolver is constructed over the cache file (also: a fresh one
\* over the file an earlier one wrote); over a file on which it raises, no
\* resolver results and the indexes were cleared before the exception
Construct ==
  IF LoadRaises(file)
  THEN /\ alias_cs' = EmptyDict
       /\ alias_ci' = EmptyDict
       /\ UNCHANGED <<ready, cache, file, calls, second, fetch>>
  ELSE LET st == LoadCache(file)
       IN /\ ready' = TRUE
          /\ cache' = st.cache
          /\ alias_cs' = st.alias_cs
          /\ alias_ci' = st.alias_ci
          /\ file' = st.file
          /\ UNCHANGED <<calls, second, fetch>>

\* the call would reach _fetch_from_pubchem: a valid query the cache does not resolve
Misses(st, query) == Strip(query) # <<>> /\ LookupCache(st, query) = NoRecord

\* one call of forward; a call that reaches the adapter is modelled while the
\* cache stays within MaxEntries and the token's count within MaxCalls
Resolve(query, output_format, resp) ==
  /\ ready
  /\ Misses(Cur, query) =>
       /\ HasKey(cache, query) \/ Len(cache) < MaxEntries
       /\ calls[query] < MaxCalls
  /\ \E r \in {Forward(Cur, query, output_format, resp)} :
        /\ cache' = r.st.cache
        /\ alias_cs' = r.st.alias_cs
        /\ alias_ci' = r.st.alias_ci
        /\ file' = r.st.file
        /\ calls' = IF r.called THEN [calls EXCEPT ![query] = @ + 1] ELSE calls
        /\ ready' = ready
        /\ UNCHANGED <<second, fetch>>

Next ==
  \/ Construct
  \/ \E query \in Queries, output_format \in Formats, resp \in Responses :
       Resolve(query, output_format, resp)

Spec == Init /\ [][Next]_vars

\* ----------------------------------------- two resolvers in one process
\* the second resolver's current state: its own cache and file, the indexes of
\* the class
Cur2 == MkState(cache2, alias_cs, alias_ci, file2)

\* __init__ of a second resolver over another cache_filename
Construct2 ==
  LET st == LoadCache(file2)
  IN /\ ready2' = TRUE
     /\ cache2' = st.cache
     /\ alias_cs' = st.alias_cs
     /\ alias_ci' = st.alias_ci
     /\ file2' = st.file
     /\ UNCHANGED <<ready, cache, file, calls, fetch>>

\* one call of forward on the second resolver
Resolve2(query, output_format, resp) ==
  /\ ready2
  /\ Misses(Cur2, query) =>
       /\ HasKey(cache2, query) \/ Len(cache2) < MaxEntries
       /\ calls[query] < MaxCalls
  /\ \E r \in {Forward(Cur2, query, output_format, resp)} :
        /\ cache2' = r.st.cache
        /\ alias_cs' = r.st.alias_cs
        /\ alias_ci' = r.st.alias_ci
        /\ file2' = r.st.file
        /\ calls' = IF r.called THEN [calls EXCEPT ![query] = @ + 1] ELSE calls
        /\ ready2' = ready2
        /\ UNCHANGED <<ready, cache, file, fetch>>

\* the calls made on the two resolvers: a name, the name passed with a leading
\* blank, an inchikey
TwoQueries == {<<"a">>, <<" ", "a">>, <<"K">>}
TwoResponses ==
  { <<Nothing, Nothing, Nothing, Nothing, Nothing>>,
    <<Raises, Nothing, Nothing, One, TwoOne>> }

NextTwo ==
  \/ Construct
  \/ Construct2
  \/ \E query \in TwoQueries, resp \in TwoResponses : Resolve(query, "json", resp)
  \/ \E query \in TwoQueries, resp \in TwoResponses : Resolve2(query, "json", resp)

SpecTwo == Init /\ [][NextTwo]_vars

\* ------------------------------------ _fetch_from_pubchem, attempt by attempt
\* what PubChem may answer in one namespace
Answers == {Raises, Nothing, One, TwoOne}

\* the loop goes on to the next namespace
Skipped == [skipped |-> TRUE]

\* one pass of the loop body where an exception ends the fetch with None
TryNamespace_RaiseAborts(o) ==
  IF o.kind = "raise" THEN NoRecord
  ELSE IF o.comps = <<>> THEN Skipped
  ELSE RecordOf(o.comps[1])

\* one pass of the loop body: except Exception: continue; if not comps: continue;
\* else return the record of comps[0]
TryNamespace(o) ==
  IF o.kind = "raise" \/ o.comps = <<>> THEN Skipped ELSE RecordOf(o.comps[1])

\* a fetch starts, PubChem's answers being any of Answers in each namespace
InitFetch ==
  /\ NothingYet
  /\ file = FileAbsent
  /\ attempts \in [NamespaceSet -> Answers]

\* one pass of the for loop; after the last namespace the function returns None
FetchStep ==
  /\ fetched = Pending
  /\ Len(tried) < Len(Namespaces)
  /\ LET ns == Namespaces[Len(tried) + 1]
         got == TryNamespace(attempts[ns])
     IN /\ tried' = Append(tried, ns)
        /\ fetched' = IF got # Skipped THEN got
                      ELSE IF Len(tried) + 1 = Len(Namespaces) THEN NoRecord
                      ELSE Pending
  /\ UNCHANGED <<first, second, attempts>>

NextFetch == FetchStep

SpecFetch == InitFetch /\ [][NextFetch]_vars

\* ================================================================ claims
\* Vocabulary of the claims, stated from the record's fields and not through the
\* index-building operators above.

\* the output_format values the contract accepts
ValidFormats == FieldSet \cup {"json"}

\* the queries the contract accepts
ValidQueries == {q \in Queries : Strip(q) # <<>>}

IsText(v) == v.t = "str" /\ Strip(v.s) # <<>>

\* the structural identifiers a record owns: inchikey, smiles, formula, str(cid)
StructuralIds(rec) ==
  {Strip(rec[f].s) : f \in {g \in {"inchikey", "smiles", "formula", "cid"} : IsText(rec[g])}}
    \cup (IF rec["cid"].t = "int" THEN {IntText(rec["cid"].n)} ELSE {})

\* the names an item owns: its written key, iupac_name, common_name
NameIds(e) ==
  {e.key} \cup {e.rec[f].s : f \in {g \in {"iupac_name", "common_name"} : IsText(e.rec[g])}}

AllStructuralIds == UNION {StructuralIds(cache[i].rec) : i \in 1..Len(cache)}
AllNormalizedNames ==
  UNION {{StrLower(Strip(n)) : n \in NameIds(cache[i])} : i \in 1..Len(cache)}

\* q and a differ in letter case only
CaseVariant(q, a) == Strip(q) # a /\ StrLower(Strip(q)) = StrLower(a)

\* a message saying that nothing was found
IsNoResultMessage(out) == out.kind \in {"no_result", "no_value"}

\* C1: for every query and output_format, calling resolve twice in a row returns
\* the same output both times, and the second call does not invoke the adapter,
\* whether the adapter returns a record or nothing.
C1_ResolveIdempotent ==
  ready =>
    \A q \in ValidQueries, f \in ValidFormats, resp1 \in Responses, resp2 \in Responses :
      LET r1 == Forward(Cur, q, f, resp1)
          r2 == Forward(r1.st, q, f, resp2)
      IN r2.out = r1.out /\ ~r2.called

\* C2: a token for which the adapter returned nothing reaches the adapter exactly
\* once over any number of resolve calls with any output_format; the calls after
\* the first are served from the cache, and from the negative record as long as
\* no record was cached after it.
C2_NegativeCachedOnce ==
  \A q \in Queries :
    /\ calls[q] <= 1
    /\ (HasKey(cache, q) /\ DictGet(cache, q) = NegativeRecord) =>
         /\ calls[q] = 1
         /\ ~Misses(Cur, q)
         /\ cache[Len(cache)].key = q => LookupCache(Cur, q) = NegativeRecord

\* a negative record is cached, a record was cached after it, and the adapter was
\* asked once for each of the two tokens
C2_Witness ==
  /\ ready
  /\ Len(cache) = 2
  /\ cache[1].rec = NegativeRecord
  /\ cache[2].rec # NegativeRecord
  /\ calls[cache[1].key] = 1
  /\ calls[cache[2].key] = 1

\* C3: whenever the record resolved for q is the negative record, resolve(q, f)
\* returns a no-result message for "json" and for each of the six field names,
\* on the first call and on every call served from the cache.
C3_NegativeReportedAsNoResult ==
  ready =>
    \A q \in ValidQueries, f \in ValidFormats, resp \in Responses :
      LET r == Forward(Cur, q, f, resp)
      IN r.rec = NegativeRecord => IsNoResultMessage(r.out)

\* another item of the cache generates the inchikey k or the written key w of
\* item i as one of its own aliases
Contested(i, k, w) ==
  \E j \in (1..Len(cache)) \ {i} :
    \/ Strip(k) \in StructuralIds(cache[j].rec)
    \/ Strip(w) \in StructuralIds(cache[j].rec)
    \/ StrLower(Strip(w)) \in {StrLower(Strip(n)) : n \in NameIds(cache[j])}

\* C4: in every reachable state, if R is stored under written key W and has a
\* non-empty inchikey K, then resolve(K, "json") and resolve(W, "json") return the
\* identical record and neither call invokes the adapter.
C4_AliasSymmetry ==
  ready =>
    \A i \in 1..Len(cache), resp \in Responses :
      LET k == cache[i].rec["inchikey"]
          byKey == Forward(Cur, k.s, "json", resp)
          byWritten == Forward(Cur, cache[i].key, "json", resp)
      IN IsText(k) => /\ byKey.out = byWritten.out
                      /\ ~byKey.called
                      /\ ~byWritten.called

\* C4 as amended: neither call invokes the adapter; both return R when no other
\* cached record generates K or W as an alias of its own.
C4_AliasSymmetryUncontested ==
  ready =>
    \A i \in 1..Len(cache), resp \in Responses :
      LET k == cache[i].rec["inchikey"]
          byKey == Forward(Cur, k.s, "json", resp)
          byWritten == Forward(Cur, cache[i].key, "json", resp)
      IN IsText(k) =>
           /\ ~byKey.called
           /\ ~byWritten.called
           /\ ~Contested(i, k.s, cache[i].key) =>
                /\ byKey.out = byWritten.out
                /\ byKey.rec = cache[i].rec
                /\ byKey.out = JsonText(cache[i].rec)

\* a record with an inchikey is cached under a written key that is not the
\* inchikey, beside another record, and nothing contests its aliases
C4_Witness ==
  /\ ready
  /\ Len(cache) = 2
  /\ \E i \in 1..Len(cache) :
       /\ IsText(cache[i].rec["inchikey"])
       /\ cache[i].key # cache[i].rec["inchikey"].s
       /\ ~Contested(i, cache[i].rec["inchikey"].s, cache[i].key)
       /\ LookupCache(Cur, cache[i].rec["inchikey"].s) = cache[i].rec

\* C5: if a cached record owns a structural alias A, a query that differs from A
\* only in letter case is a cache miss and resolve goes to the adapter, unless
\* that string has itself been cached as a written key; also when A is the
\* written key of the record.
C5_StructuralCaseSensitive ==
  ready =>
    \A i \in 1..Len(cache), q \in ValidQueries :
      \A a \in StructuralIds(cache[i].rec) :
        (CaseVariant(q, a) /\ ~\E w \in Keys(cache) : Strip(w) = Strip(q)) =>
          /\ LookupCache(Cur, q) = NoRecord
          /\ \A resp \in Responses : Forward(Cur, q, "json", resp).called

\* C5 as amended: such a query is a miss exactly when it is neither a structural
\* identifier of a cached record nor, normalized, a name (written key, iupac_name,
\* common_name) of one; when A is the written key, it is a hit.
C5_StructuralCaseSensitiveUnlessName ==
  ready =>
    \A i \in 1..Len(cache), q \in ValidQueries :
      \A a \in StructuralIds(cache[i].rec) :
        CaseVariant(q, a) =>
          /\ LookupCache(Cur, q) = NoRecord
               <=> (Strip(q) \notin AllStructuralIds
                    /\ StrLower(Strip(q)) \notin AllNormalizedNames)
          /\ \A resp \in Responses :
               Forward(Cur, q, "json", resp).called <=> LookupCache(Cur, q) = NoRecord
          /\ a = cache[i].key => LookupCache(Cur, q) # NoRecord

\* a cached record owns a structural identifier, and the query that differs from
\* it in case only misses the cache
C5_Witness ==
  /\ ready
  /\ \E i \in 1..Len(cache), q \in ValidQueries :
       \E a \in StructuralIds(cache[i].rec) :
         /\ CaseVariant(q, a)
         /\ cache[i].key # a
         /\ LookupCache(Cur, q) = NoRecord
         /\ LookupCache(Cur, a) = cache[i].rec

\* C6: if a cached record has written key, iupac_name or common_name N, any query
\* equal to N after trimming and lowercasing both resolves to the same record as
\* N does, without an adapter call.
C6_NameCaseInsensitive ==
  ready =>
    \A i \in 1..Len(cache), q \in ValidQueries, resp \in Responses :
      \A n \in NameIds(cache[i]) :
        StrLower(Strip(q)) = StrLower(Strip(n)) =>
          LET byQuery == Forward(Cur, q, "json", resp)
              byName == Forward(Cur, n, "json", resp)
          IN /\ ~byQuery.called
             /\ ~byName.called
             /\ byQuery.rec = byName.rec
             /\ byQuery.out = byName.out

\* C6 as amended: no adapter call in any case; the same record when neither
\* string, trimmed, is a structural identifier of a cached record.
C6_NameCaseInsensitiveUnlessStructural ==
  ready =>
    \A i \in 1..Len(cache), q \in ValidQueries, resp \in Responses :
      \A n \in NameIds(cache[i]) :
        StrLower(Strip(q)) = StrLower(Strip(n)) =>
          LET byQuery == Forward(Cur, q, "json", resp)
              byName == Forward(Cur, n, "json", resp)
          IN /\ ~byQuery.called
             /\ ~byName.called
             /\ (Strip(q) \notin AllStructuralIds /\ Strip(n) \notin AllStructuralIds) =>
                  /\ byQuery.rec = byName.rec
                  /\ byQuery.rec # NoRecord
                  /\ byQuery.out = byName.out

\* a cached record has a name, and a query spelled in another case resolves to
\* the record the name resolves to
C6_Witness ==
  /\ ready
  /\ \E i \in 1..Len(cache), q \in ValidQueries :
       \E n \in NameIds(cache[i]) :
         /\ Strip(q) # Strip(n)
         /\ StrLower(Strip(q)) = StrLower(Strip(n))
         /\ Strip(q) \notin AllStructuralIds
         /\ Strip(n) \notin AllStructuralIds
         /\ LookupCache(Cur, q) = cache[i].rec
         /\ LookupCache(Cur, n) = cache[i].rec

\* C7: resolve fails with InvalidInput if and only if the query is empty after
\* trimming or output_format is a value other than "json" and the six field
\* names; no output_format given means "json".
C7_InputContract ==
  ready =>
    \A q \in Queries, f \in Formats, resp \in Responses :
      Forward(Cur, q, f, resp).out = RaisedValueError
        <=> (Strip(q) = <<>> \/ f \notin ValidFormats \cup {FormatNone})

\* C8: a resolve call that fails with InvalidInput makes no adapter call and
\* leaves the Store, both alias tables and the durable storage as they were.
C8_InvalidInputChangesNothing ==
  [][\A q \in Queries, f \in Formats, resp \in Responses :
       (Resolve(q, f, resp) /\ Forward(Cur, q, f, resp).out = RaisedValueError)
         => UNCHANGED vars]_vars

\* C9: a fresh resolver constructed from the durable storage just written has a
\* Store equal to the in-memory one and alias tables under which every query
\* looks up the same record or the same absence; re-persisting the reloaded
\* Store gives the same content, and loading does not rewrite it.
C9_PersistenceRoundTrip ==
  (ready /\ file.kind = "json") =>
    LET fresh == LoadCache(file)
    IN /\ fresh.cache = cache
       /\ \A q \in Queries : LookupCache(fresh, q) = LookupCache(Cur, q)
       /\ PersistCache(fresh.cache) = file
       /\ fresh.file = file

\* the storage was written with a negative record and a record holding an int cid
C9_Witness ==
  /\ ready
  /\ file.kind = "json"
  /\ Len(file.body) = 2
  /\ \E i, j \in 1..Len(cache) :
       /\ cache[i].rec = NegativeRecord
       /\ cache[j].rec["cid"].t = "int"
       /\ cache[j].rec["iupac_name"] = PyStr(<<>>)

\* C10: every resolve call that reaches the adapter changes the Store and
\* rewrites the durable storage before it returns, whether a record was found or
\* not; after it the storage holds the whole Store.
C10_AdapterCallPersists ==
  [][calls' # calls =>
       /\ cache' # cache
       /\ file' = PersistCache(cache')
       /\ file' # file
       /\ LoadCache(file').cache = cache']_vars

\* calls that reached the adapter, one finding nothing and one finding a record,
\* have returned and the storage holds both entries
C10_Witness ==
  /\ ready
  /\ \E q1, q2 \in Queries :
       /\ calls[q1] = 1 /\ calls[q2] = 1
       /\ DictGet(cache, q1) = NegativeRecord
       /\ DictGet(cache, q2) \notin {NegativeRecord, NoRecord}
       /\ Len(file.body) = Len(cache)

\* C11: once a resolver is constructed, and after every resolve call, every alias
\* of both tables maps to a written key that is in the Store, and both tables are
\* what a rebuild from the Store alone computes.
C11_AliasIndexInvariant ==
  ready =>
    /\ \A a \in DOMAIN alias_cs : alias_cs[a] \in Keys(cache)
    /\ \A n \in DOMAIN alias_ci : alias_ci[n] \in Keys(cache)
    /\ DOMAIN alias_cs = AllStructuralIds
    /\ DOMAIN alias_ci = AllNormalizedNames
    /\ alias_cs = RebuildAliasIndexes(cache).cs
    /\ alias_ci = RebuildAliasIndexes(cache).ci

\* two entries are cached, and both tables hold aliases of both
C11_Witness ==
  /\ ready
  /\ Len(cache) = 2
  /\ {alias_cs[a] : a \in DOMAIN alias_cs} = Keys(cache)
  /\ {alias_ci[n] : n \in DOMAIN alias_ci} = Keys(cache)

\* the outcome is a returned string
IsString(out) == out.kind \in {"json", "value", "no_result", "no_value"}

\* every attempt of the adapter raised or yielded nothing
NothingFound(resp) ==
  \A i \in 1..Len(resp) : resp[i].kind = "raise" \/ resp[i].comps = <<>>

\* C12: with a valid query and a valid output_format, resolve returns a string in
\* every state of the Store and for every adapter behaviour (found, nothing, an
\* exception in any or all attempts); when the adapter is reached and finds
\* nothing or fails in every attempt, the string is the no-result string and a
\* negative entry keyed by the query is added to the Store.
C12_AdapterFailuresContained ==
  ready =>
    \A q \in ValidQueries, f \in ValidFormats, resp \in Responses :
      LET r == Forward(Cur, q, f, resp)
      IN /\ IsString(r.out)
         /\ (r.called /\ NothingFound(resp)) =>
              /\ r.out = NoResultFound(q)
              /\ q \notin Keys(cache)
              /\ r.st.cache = Append(cache, [key |-> q, rec |-> NegativeRecord])
         /\ (r.called /\ ~NothingFound(resp)) =>
              /\ r.out.kind # "no_result"
              /\ DictGet(r.st.cache, q) \notin {NoRecord, NegativeRecord}

\* a found record is cached, and after it a negative entry under a query passed
\* with a leading blank
C12_Witness ==
  /\ ready
  /\ Len(cache) = 2
  /\ cache[1].rec # NegativeRecord
  /\ cache[2] = [key |-> <<" ", "a">>, rec |-> NegativeRecord]
  /\ calls[<<" ", "a">>] = 1

\* a step of the second resolver: its construction or one of its resolve calls
SecondActs ==
  \/ Construct2
  \/ \E query \in TwoQueries, resp \in TwoResponses : Resolve2(query, "json", resp)

\* C13: two resolvers over different storage locations are isolated: constructing
\* the second or calling resolve on it changes neither the Store nor either
\* alias table of the first, every query looks up on the first what it looked up
\* before, and the first one's alias tables still refer only to written keys of
\* its own Store.
C13_ResolversIsolated ==
  [][(ready /\ SecondActs) =>
       /\ cache' = cache
       /\ file' = file
       /\ alias_cs' = alias_cs
       /\ alias_ci' = alias_ci
       /\ \A q \in Queries : LookupCache(Cur', q) = LookupCache(Cur, q)
       /\ \A a \in DOMAIN alias_cs' : alias_cs'[a] \in Keys(cache')
       /\ \A n \in DOMAIN alias_ci' : alias_ci'[n] \in Keys(cache')]_vars

\* the queries looked up: those resolved, and structural identifiers passed with
\* a blank before or after
LookupProbes == Queries \cup {<<" ", "K">>, <<"F", " ">>}

\* C14: lookup(query) returns the record owned by the case-sensitive table's
\* entry for the query when there is one; otherwise the record owned by the
\* case-insensitive table's entry for the normalized query when there is one;
\* otherwise the Store entry whose written key is the query itself; otherwise
\* absence. An earlier step that matches takes priority over a later one.
C14_LookupOrder ==
  ready =>
    \A query \in LookupProbes :
      LET n == StrLower(Strip(query))
          got == LookupCache(Cur, query)
      IN IF query \in DOMAIN alias_cs THEN got = DictGet(cache, alias_cs[query])
         ELSE IF n \in DOMAIN alias_ci THEN got = DictGet(cache, alias_ci[n])
         ELSE IF query \in Keys(cache) THEN got = DictGet(cache, query)
         ELSE got = NoRecord

\* C14 as amended: the same order and priority, with the query trimmed before
\* the first step: the case-sensitive table's entry for the trimmed query, then
\* the case-insensitive table's entry for the trimmed and lowercased query, then
\* the Store entry whose written key is the trimmed query, then absence.
C14_LookupOrderTrimmed ==
  ready =>
    \A query \in LookupProbes :
      LET q == Strip(query)
          n == StrLower(q)
          got == LookupCache(Cur, query)
      IN IF q = <<>> THEN got = NoRecord
         ELSE IF q \in DOMAIN alias_cs THEN got = DictGet(cache, alias_cs[q])
         ELSE IF n \in DOMAIN alias_ci THEN got = DictGet(cache, alias_ci[n])
         ELSE IF q \in Keys(cache) THEN got = DictGet(cache, q)
         ELSE got = NoRecord

\* a query has an entry in the case-sensitive table and, normalized, an entry of
\* another record in the case-insensitive table, and looks up the former
C14_Witness ==
  /\ ready
  /\ \E query \in LookupProbes :
       LET q == Strip(query)
           n == StrLower(q)
       IN /\ q \in DOMAIN alias_cs
          /\ n \in DOMAIN alias_ci
          /\ DictGet(cache, alias_cs[q]) # DictGet(cache, alias_ci[n])
          /\ LookupCache(Cur, query) = DictGet(cache, alias_cs[q])
          /\ q # query

\* the positions of the Store's entries that own the structural identifier a
OwnersOf(a) == {i \in 1..Len(cache) : a \in StructuralIds(cache[i].rec)}

\* the positions of the Store's entries that have n as a normalized name
NamedBy(n) == {i \in 1..Len(cache) : n \in {StrLower(Strip(m)) : m \in NameIds(cache[i])}}

\* the entry inserted latest among those at the positions S
LatestOf(S) == cache[CHOOSE i \in S : \A j \in S : j <= i]

\* C15: when several Store entries generate the same alias, the alias maps to the
\* written key of the entry inserted latest, in both tables; a field that is the
\* empty string (or null) generates no alias.
C15_LastInsertedWins ==
  ready =>
    /\ DOMAIN alias_cs = {a \in AllStructuralIds : OwnersOf(a) # {}}
    /\ \A a \in DOMAIN alias_cs : alias_cs[a] = LatestOf(OwnersOf(a)).key
    /\ DOMAIN alias_ci = {n \in AllNormalizedNames : NamedBy(n) # {}}
    /\ \A n \in DOMAIN alias_ci : alias_ci[n] = LatestOf(NamedBy(n)).key
    /\ <<>> \notin DOMAIN alias_cs
    /\ <<>> \notin DOMAIN alias_ci
    /\ \A i \in 1..Len(cache) :
         Cardinality({a \in DOMAIN alias_cs : alias_cs[a] = cache[i].key})
           <= Cardinality({f \in {"inchikey", "smiles", "formula", "cid"} :
                             cache[i].rec[f] \notin {PyNone, PyStr(<<>>)}})

\* two entries own the same formula, the second one has empty-string fields, and
\* the formula maps to the second one's written key
C15_Witness ==
  /\ ready
  /\ Len(cache) = 2
  /\ \E a \in DOMAIN alias_cs :
       /\ OwnersOf(a) = {1, 2}
       /\ alias_cs[a] = cache[2].key
       /\ LookupCache(Cur, a) = cache[2].rec
  /\ cache[1].rec # cache[2].rec
  /\ \E f \in FieldSet : cache[2].rec[f] = PyStr(<<>>)

\* the compound of the first attempt that yielded any
FirstFound(resp) ==
  resp[CHOOSE i \in 1..Len(resp) :
         /\ resp[i].kind = "list" /\ resp[i].comps # <<>>
         /\ \A j \in 1..(i - 1) : resp[j].kind = "raise" \/ resp[j].comps = <<>>].comps[1]

\* the output_format values of C16: the default, a field, an unknown one
SomeFormats == {"json", "cid", "bogus"}

\* C16: a resolve call that hits the cache leaves the Store, both alias tables and
\* the durable storage unchanged and makes no adapter call; a call that misses
\* adds exactly one Store entry, keyed by the raw query exactly as passed (not
\* trimmed, not case-folded), holding the adapter's record or the negative
\* record; no call removes an entry or replaces the record under an existing
\* written key.
C16_StoreTransition ==
  ready =>
    \A q \in Queries, f \in SomeFormats, resp \in Responses :
      LET r == Forward(Cur, q, f, resp)
      IN IF Strip(q) = <<>> \/ LookupCache(Cur, q) # NoRecord
         THEN r.st = Cur /\ ~r.called
         ELSE /\ r.called
              /\ q \notin Keys(cache)
              /\ r.st.cache =
                   Append(cache,
                          [key |-> q,
                           rec |-> IF NothingFound(resp) THEN NegativeRecord
                                   ELSE RecordOf(FirstFound(resp))])

\* two calls missed and each added its entry; the second query was passed with a
\* leading blank and is the written key of a found record
C16_Witness ==
  /\ ready
  /\ Len(cache) = 2
  /\ cache[2].key = <<" ", "a">>
  /\ cache[2].rec \notin {NegativeRecord, cache[1].rec}
  /\ calls[cache[1].key] = 1
  /\ calls[cache[2].key] = 1
  /\ Len(file.body) = 2

\* another Store entry generates the written key of entry i as an alias of its
\* own: as a structural identifier, or normalized as one of its names
KeyContested(i) ==
  \E j \in (1..Len(cache)) \ {i} :
    \/ Strip(cache[i].key) \in StructuralIds(cache[j].rec)
    \/ StrLower(Strip(cache[i].key)) \in {StrLower(Strip(n)) : n \in NameIds(cache[j])}

\* C17: for every written key W in the Store, resolve(W, "json") returns the record
\* stored under W and makes no adapter call, whichever other records were cached
\* before or afterwards.
C17_WrittenKeyResolvesOwn ==
  ready =>
    \A i \in 1..Len(cache), resp \in Responses :
      LET r == Forward(Cur, cache[i].key, "json", resp)
      IN /\ ~r.called
         /\ r.rec = cache[i].rec
         /\ r.out = JsonText(cache[i].rec)

\* C17 as amended: resolve(W, "json") makes no adapter call in any case, and
\* returns the record stored under W when no other Store entry generates W as an
\* alias of its own; otherwise it returns a record of the Store.
C17_WrittenKeyResolvesOwnUncontested ==
  ready =>
    \A i \in 1..Len(cache), resp \in Responses :
      LET r == Forward(Cur, cache[i].key, "json", resp)
      IN /\ ~r.called
         /\ r.st = Cur
         /\ \E j \in 1..Len(cache) : r.rec = cache[j].rec /\ r.out = JsonText(cache[j].rec)
         /\ ~KeyContested(i) => /\ r.rec = cache[i].rec
                                /\ r.out = JsonText(cache[i].rec)

\* a negative record was cached under a query passed with a leading blank, another
\* record was cached after it, and the first written key still resolves to the
\* negative record
C17_Witness ==
  /\ ready
  /\ Len(cache) = 2
  /\ cache[1] = [key |-> <<" ", "a">>, rec |-> NegativeRecord]
  /\ cache[2].rec # NegativeRecord
  /\ ~KeyContested(1)
  /\ LookupCache(Cur, cache[1].key) = NegativeRecord

\* C18: load() never fails. Over absent storage the Store is empty and an empty
\* structure is written at once; over malformed storage (anything that is not a
\* well-formed mapping from written key to record) the Store is empty, the
\* construction does not raise and the storage is left as it is; the alias tables
\* are rebuilt, empty, before any resolve call.
C18_LoadNeverFails ==
  ~ready =>
    /\ ~LoadRaises(file)
    /\ LET st == LoadCache(file)
       IN /\ file.kind = "absent" =>
               st.cache = <<>> /\ st.file = FileJson(JsonDump(<<>>))
          /\ file.kind \notin {"absent", "json"} =>
               st.cache = <<>> /\ st.file = file
          /\ file.kind # "json" =>
               st.alias_cs = EmptyDict /\ st.alias_ci = EmptyDict

\* no field of the record is null
NoNull(rec) == \A f \in FieldSet : rec[f] # PyNone

\* all six fields of the record are null
AllNull(rec) == \A f \in FieldSet : rec[f] = PyNone

\* C19: starting from an empty Store, every Store record is either a negative
\* record with all six fields null or a positive record with no field null
\* (fields missing upstream are the empty string), never a mix; a negative
\* record is created exactly when the adapter returned nothing.
C19_NullOrEmptyString ==
  ready =>
    /\ \A i \in 1..Len(cache) : AllNull(cache[i].rec) \/ NoNull(cache[i].rec)
    /\ \A q \in ValidQueries, resp \in Responses :
         LET r == Forward(Cur, q, DefaultFormat, resp)
         IN r.called =>
              /\ AllNull(r.rec) <=> NothingFound(resp)
              /\ NoNull(r.rec) <=> ~NothingFound(resp)
              /\ DictGet(r.st.cache, q) = r.rec
              /\ \A f \in FieldSet :
                   (~NothingFound(resp) /\ f # "cid") => r.rec[f].t = "str"

\* the Store holds a negative record and a positive record four of whose fields
\* are the empty string
C19_Witness ==
  /\ ready
  /\ \E i, j \in 1..Len(cache) :
       /\ AllNull(cache[i].rec)
       /\ NoNull(cache[j].rec)
       /\ Cardinality({f \in FieldSet : cache[j].rec[f] = PyStr(<<>>)}) = 4

\* the order of the interpretations as claimed
ClaimedOrder == <<"inchikey", "smiles", "formula", "name", "cid">>

\* the interpretation raised or yielded an empty result
YieldsNothing(ns) == attempts[ns].kind = "raise" \/ attempts[ns].comps = <<>>

\* C20: the fetch tries the interpretations inchikey, smiles, formula, name, cid in
\* that order; it returns the record built from the first interpretation that
\* yields a non-empty result and tries no later interpretation after that; an
\* interpretation that raises or yields nothing is skipped; it returns absence
\* only if every one of them raised or yielded nothing.
C20_FetchTrialOrder ==
  /\ tried = SubSeq(ClaimedOrder, 1, Len(tried))
  /\ \A i \in 1..(Len(tried) - 1) : YieldsNothing(tried[i])
  /\ fetched = Pending =>
       /\ Len(tried) < Len(ClaimedOrder)
       /\ \A i \in 1..Len(tried) : YieldsNothing(tried[i])
  /\ fetched = NoRecord =>
       /\ tried = ClaimedOrder
       /\ \A i \in 1..Len(ClaimedOrder) : YieldsNothing(ClaimedOrder[i])
  /\ fetched \notin {Pending, NoRecord} =>
       /\ tried # <<>>
       /\ ~YieldsNothing(tried[Len(tried)])
       /\ fetched = RecordOf(attempts[tried[Len(tried)]].comps[1])
  /\ fetched # Pending =>
       fetched = FetchFromPubchem([i \in 1..Len(ClaimedOrder) |-> attempts[ClaimedOrder[i]]])

\* the first interpretation raised, the next two yielded nothing, the fourth
\* yielded two compounds and the record is built from the first of them; cid,
\* which would have yielded another compound, was not tried
C20_Witness ==
  /\ attempts["inchikey"] = Raises
  /\ attempts["smiles"] = Nothing
  /\ attempts["formula"] = Nothing
  /\ attempts["name"] = TwoOne
  /\ attempts["cid"] = One
  /\ tried = <<"inchikey", "smiles", "formula", "name">>
  /\ fetched = RecordOf(CompoundTwo)

====
